---- MODULE Spec2Model ----
(***************************************************************************)
(* devflow: the classification pipelines.                                  *)
(*                                                                         *)
(*   autoTagEntryFlow   (single-entry classifier, retry/backoff/fallback)  *)
(*   bulkAutoTagFlow    (bulk classifier, retry/backoff, rethrow)          *)
(*   getFallbackResult, extractBasicTags, validateAndEnhanceOutput         *)
(*   addEntry, bulkAddEntries (ingestion into the entries collection)     *)
(*   localSearch       (client-side filtering)                             *)
(*                                                                         *)
(* Strings are TLA+ strings; the JavaScript string methods the code uses   *)
(* (toLowerCase, includes, trim, split(/\s+/)) are computed character by   *)
(* character.  Confidence values are in hundredths (0.7 is 70) and delays  *)
(* in milliseconds.  An optional value is <<>> (undefined) or <<v>>.       *)
(***************************************************************************)
EXTENDS Integers, Sequences, FiniteSets, TLC

VARIABLES
    flow,       \* which flow this invocation runs: "none", "single", "bulk"
    pc,         \* position of the flow: "idle", "generate", "sleep", "returned", "threw"
    input,      \* the raw text handed to the flow
    attempt,    \* the loop variable `attempt` of the retry loop
    outcomes,   \* what each ai.generate call of this invocation did, in order
    sleeps,     \* the delays (ms) of the setTimeout sleeps of this invocation
    output,     \* result.output of the last ai.generate call that returned
    result,     \* what the flow returned (or the error it threw)
    apc,        \* position of addEntry: "none", "classify", "create", "returned", "threw"
    store,      \* the documents created in the entries collection, in order
    addResult,  \* what addEntry returned (or the error it threw)
    createCalls, \* how many times this invocation called createEntry
    bpc,        \* position of bulkAddEntries: "none", "classify", "saving", "fallback", "returned", "threw"
    creates,    \* the createEntry calls bulkAddEntries started, in order, with their state
    bulkResult, \* what bulkAddEntries returned (or the error it threw)
    query,      \* localSearch: the query
    entries,    \* localSearch: the entries searched
    searchResult, \* localSearch: the entries returned
    now,        \* the wall clock (ms)
    removed,    \* the ids of the documents deleted from the entries collection
    home,       \* the state of the Home page: entries, isLoading, error
    cards,      \* isPending of the mounted EntryCard of each entry id
    calls,      \* the server actions the cards started that have not finished
    loads,      \* the loadEntries calls that have not finished
    clicks      \* the number of button clicks so far

vars == <<flow, pc, input, attempt, outcomes, sleeps, output, result, apc, store, addResult,
          createCalls, bpc, creates, bulkResult, query, entries, searchResult,
          now, removed, home, cards, calls, loads, clicks>>

addVars == <<apc, store, addResult>>

bulkVars == <<createCalls, bpc, creates, bulkResult>>

searchVars == <<query, entries, searchResult>>

uiVars == <<now, removed, home, cards, calls, loads, clicks>>

-----------------------------------------------------------------------------
(* Bounds of the model *)

MaxWords == 2       \* words per generated input text
MaxRepeat == 6      \* longest text made of alternating words
MaxResults == 2     \* items in a bulk oracle answer

-----------------------------------------------------------------------------
(* Optional values *)

undefined == <<>>
Some(v) == <<v>>

Min(a, b) == IF a < b THEN a ELSE b

-----------------------------------------------------------------------------
(* JavaScript string methods *)

WhiteSpace == {" ", "\n", "\t"}

CharAt(s, i) == SubSeq(s, i, i)

LowerChar(c) ==
    CASE c = "A" -> "a" [] c = "B" -> "b" [] c = "C" -> "c" [] c = "D" -> "d"
      [] c = "E" -> "e" [] c = "F" -> "f" [] c = "G" -> "g" [] c = "H" -> "h"
      [] c = "I" -> "i" [] c = "J" -> "j" [] c = "K" -> "k" [] c = "L" -> "l"
      [] c = "M" -> "m" [] c = "N" -> "n" [] c = "O" -> "o" [] c = "P" -> "p"
      [] c = "Q" -> "q" [] c = "R" -> "r" [] c = "S" -> "s" [] c = "T" -> "t"
      [] c = "U" -> "u" [] c = "V" -> "v" [] c = "W" -> "w" [] c = "X" -> "x"
      [] c = "Y" -> "y" [] c = "Z" -> "z" [] OTHER -> c

RECURSIVE toLowerCase(_)
toLowerCase(s) ==
    IF Len(s) = 0 THEN ""
    ELSE LowerChar(CharAt(s, 1)) \o toLowerCase(SubSeq(s, 2, Len(s)))

includes(s, sub) ==
    \E i \in 1..(Len(s) - Len(sub) + 1) : SubSeq(s, i, i + Len(sub) - 1) = sub

IsBlank(s) == \A i \in 1..Len(s) : CharAt(s, i) \in WhiteSpace

trim(s) ==
    IF IsBlank(s) THEN ""
    ELSE LET first == CHOOSE i \in 1..Len(s) :
                        /\ CharAt(s, i) \notin WhiteSpace
                        /\ \A j \in 1..(i - 1) : CharAt(s, j) \in WhiteSpace
             last == CHOOSE i \in 1..Len(s) :
                        /\ CharAt(s, i) \notin WhiteSpace
                        /\ \A j \in (i + 1)..Len(s) : CharAt(s, j) \in WhiteSpace
         IN SubSeq(s, first, last)

\* s.split(/\s+/): the pieces between the maximal runs of whitespace; a run at
\* either end leaves an empty piece there, and "" splits into [""].
RECURSIVE split(_)
split(s) ==
    IF \A i \in 1..Len(s) : CharAt(s, i) \notin WhiteSpace THEN <<s>>
    ELSE LET i == CHOOSE k \in 1..Len(s) :
                    /\ CharAt(s, k) \in WhiteSpace
                    /\ \A j \in 1..(k - 1) : CharAt(s, j) \notin WhiteSpace
             j == CHOOSE k \in (i + 1)..(Len(s) + 1) :
                    /\ \A m \in i..(k - 1) : CharAt(s, m) \in WhiteSpace
                    /\ (k = Len(s) + 1 \/ CharAt(s, k) \notin WhiteSpace)
         IN <<SubSeq(s, 1, i - 1)>> \o split(SubSeq(s, j, Len(s)))

slice(seq, n) == SubSeq(seq, 1, Min(n, Len(seq)))

-----------------------------------------------------------------------------
(* The classification record (AutoTagEntryOutput) *)

Categories == {"code_snippet", "learning_note", "idea", "bug_fix", "general", "task"}

FallbackReasoning ==
    "AI service unavailable - used rule-based fallback categorization with basic heuristics"

\* A mutation of extractBasicTags: the slice(0, 5) is left out.
extractBasicTagsNoSlice(text) ==
    LET keywords == SelectSeq(split(toLowerCase(text)), LAMBDA word : Len(word) > 3)
    IN IF Len(keywords) > 0 THEN keywords ELSE <<"general">>

\* extractBasicTags: lower-case, split on whitespace, keep the words longer
\* than 3 characters, keep the first 5 of them; ['general'] when none is left.
extractBasicTags(text) ==
    LET keywords == slice(SelectSeq(split(toLowerCase(text)),
                                    LAMBDA word : Len(word) > 3), 5)
    IN IF Len(keywords) > 0 THEN keywords ELSE <<"general">>

\* A mutation of fallbackCategory: the idea family is tested before the code
\* family (the order of the oracle's own instructions).
fallbackCategoryIdeaFirst(text) ==
    LET lowerInput == toLowerCase(text)
    IN IF includes(lowerInput, "app") \/ includes(lowerInput, "build")
              \/ includes(lowerInput, "develop")
         THEN [category |-> "idea", confidence |-> 50]
       ELSE IF includes(lowerInput, "function") \/ includes(lowerInput, "const")
              \/ includes(lowerInput, "import")
         THEN [category |-> "code_snippet", confidence |-> 60]
       ELSE IF includes(lowerInput, "learn") \/ includes(lowerInput, "til")
              \/ includes(lowerInput, "discovered")
         THEN [category |-> "learning_note", confidence |-> 50]
       ELSE IF includes(lowerInput, "bug") \/ includes(lowerInput, "fix")
              \/ includes(lowerInput, "error")
         THEN [category |-> "bug_fix", confidence |-> 50]
       ELSE IF includes(lowerInput, "task") \/ includes(lowerInput, "todo")
              \/ includes(lowerInput, "reminder")
         THEN [category |-> "task", confidence |-> 50]
       ELSE [category |-> "general", confidence |-> 40]

\* A mutation of fallbackCategory: no heuristics, every text is general.
fallbackCategoryGeneral(text) == [category |-> "general", confidence |-> 40]

\* getFallbackResult: the keyword heuristics, an if / else-if chain.
fallbackCategory(text) ==
    LET lowerInput == toLowerCase(text)
    IN IF includes(lowerInput, "function") \/ includes(lowerInput, "const")
              \/ includes(lowerInput, "import")
         THEN [category |-> "code_snippet", confidence |-> 60]
       ELSE IF includes(lowerInput, "app") \/ includes(lowerInput, "build")
              \/ includes(lowerInput, "develop")
         THEN [category |-> "idea", confidence |-> 50]
       ELSE IF includes(lowerInput, "learn") \/ includes(lowerInput, "til")
              \/ includes(lowerInput, "discovered")
         THEN [category |-> "learning_note", confidence |-> 50]
       ELSE IF includes(lowerInput, "bug") \/ includes(lowerInput, "fix")
              \/ includes(lowerInput, "error")
         THEN [category |-> "bug_fix", confidence |-> 50]
       ELSE IF includes(lowerInput, "task") \/ includes(lowerInput, "todo")
              \/ includes(lowerInput, "reminder")
         THEN [category |-> "task", confidence |-> 50]
       ELSE [category |-> "general", confidence |-> 40]

\* A mutation of getFallbackResult: the translation is the trimmed text.
getFallbackResultTrimmed(text) ==
    LET h == fallbackCategory(text)
    IN [detectedLanguage  |-> "en",
        translatedContent |-> trim(text),
        category          |-> h.category,
        tags              |-> extractBasicTags(text),
        containsSlang     |-> FALSE,
        confidence        |-> Some(h.confidence),
        reasoning         |-> Some(FallbackReasoning)]

getFallbackResult(text) ==
    LET h == fallbackCategory(text)
    IN [detectedLanguage  |-> "en",
        translatedContent |-> text,
        category          |-> h.category,
        tags              |-> extractBasicTags(text),
        containsSlang     |-> FALSE,
        confidence        |-> Some(h.confidence),
        reasoning         |-> Some(FallbackReasoning)]

\* A mutation of confidenceUnreasonable: the upper bound is not tested.
confidenceUnreasonableNoUpper(c) ==
    \/ c = undefined
    \/ c[1] = 0
    \/ c[1] < 0

\* `!output.confidence || output.confidence < 0 || output.confidence > 1`:
\* undefined and 0 are both falsy in JavaScript.
confidenceUnreasonable(c) ==
    \/ c = undefined
    \/ c[1] = 0
    \/ c[1] < 0
    \/ c[1] > 100

\* validateAndEnhanceOutput
validateAndEnhanceOutput(out, originalInput) ==
    LET c1 == IF confidenceUnreasonable(out.confidence)
                THEN [out EXCEPT !.confidence = Some(70)] ELSE out
        c2 == IF Len(c1.tags) = 0
                THEN [c1 EXCEPT !.tags = extractBasicTags(originalInput)] ELSE c1
        c3 == IF c2.translatedContent = "" \/ trim(c2.translatedContent) = ""
                THEN [c2 EXCEPT !.translatedContent = originalInput] ELSE c2
        c4 == IF c3.reasoning = undefined \/ c3.reasoning = Some("")
                THEN [c3 EXCEPT !.reasoning =
                        Some("Categorized as " \o c3.category \o " based on content analysis")]
                ELSE c3
    IN c4

\* autoTagEntryFlow, the two statements after ai.generate returned:
\*   const output = result.output || getFallbackResult(input);
\*   return validateAndEnhanceOutput(output, input);
enhancedResult(out, text) ==
    validateAndEnhanceOutput(IF out = undefined THEN getFallbackResult(text) ELSE out[1], text)

-----------------------------------------------------------------------------
(* Retry policy of the two flows *)

\* A mutation of maxRetries: one attempt more.
maxRetriesOneMore == 3 + 1

maxRetries == 3
baseDelay == 1000
maxDelay == 10000

RECURSIVE Pow2(_)
Pow2(n) == IF n = 0 THEN 1 ELSE 2 * Pow2(n - 1)

\* An error thrown by ai.generate: error?.status and error?.message.
Err(status, message) == [status |-> status, message |-> message]

messageIncludes(error, sub) ==
    error.message # undefined /\ includes(error.message[1], sub)

\* autoTagEntryFlow, catch block
isRateLimitError(error) ==
    \/ error.status = Some(503)
    \/ messageIncludes(error, "503")
    \/ messageIncludes(error, "overloaded")
    \/ messageIncludes(error, "quota")
    \/ messageIncludes(error, "RESOURCE_EXHAUSTED")

isRetryableError(error) ==
    \/ isRateLimitError(error)
    \/ messageIncludes(error, "timeout")
    \/ messageIncludes(error, "DEADLINE_EXCEEDED")

\* bulkAutoTagFlow, catch block
bulkIsRetryableError(error) ==
    \/ error.status = Some(503)
    \/ messageIncludes(error, "503")
    \/ messageIncludes(error, "overloaded")
    \/ messageIncludes(error, "quota")
    \/ messageIncludes(error, "resource exhausted")
    \/ messageIncludes(error, "timeout")

\* A mutation of exponentialDelay: the exponent counts attempts from 1.
exponentialDelayFromOne(n) == Min(baseDelay * Pow2(n + 1), maxDelay)

\* Math.min(baseDelay * Math.pow(2, attempt), maxDelay)
exponentialDelay(n) == Min(baseDelay * Pow2(n), maxDelay)

\* Math.random() * 500 lies in [0, 500); the model takes its two ends.
Jitters == {0, 499}

-----------------------------------------------------------------------------
(* What the oracle (ai.generate) can do *)

\* Messages of thrown errors.  A response that does not match the output
\* schema (a category outside the enumeration, for one) is refused by
\* ai.generate with a schema validation error.
SchemaViolation == Err(undefined, Some("Schema validation failed: category"))

Messages ==
    {"The model is overloaded", "[503 Service Unavailable]", "You exceeded your current quota",
     "RESOURCE_EXHAUSTED", "resource exhausted", "Request timeout",
     "DEADLINE_EXCEEDED", "API key not valid"}

OracleErrors ==
    {Err(undefined, Some(m)) : m \in Messages}
        \cup {Err(Some(503), undefined), Err(Some(500), Some("Internal error")),
              Err(undefined, undefined), SchemaViolation}

\* Structured outputs that match AutoTagEntryOutputSchema.
OracleConfidences == {undefined, Some(-10), Some(0), Some(30), Some(100), Some(150)}
OracleTags == {<<>>, <<"react", "react">>}
OracleTranslations == {"", " ", "hello world"}
OracleReasonings == {undefined, Some("because")}

OracleOutputs ==
    [detectedLanguage  : {"hinglish"},
     translatedContent : OracleTranslations,
     category          : {"idea"},
     tags              : OracleTags,
     containsSlang     : {FALSE},
     confidence        : OracleConfidences,
     reasoning         : OracleReasonings]

\* Items of a bulk answer (BulkAutoTagOutputSchema.results).
BulkItem(text, conf, done) ==
    [detectedLanguage  |-> "en",
     translatedContent |-> text,
     category          |-> "task",
     tags              |-> <<"bulk">>,
     containsSlang     |-> FALSE,
     confidence        |-> conf,
     reasoning         |-> undefined,
     isCompleted       |-> done]

BulkItems ==
    {BulkItem("buy milk", Some(90), FALSE), BulkItem("fix login bug", undefined, TRUE),
     BulkItem("", Some(150), FALSE)}

BulkOutputs ==
    UNION {[1..n -> BulkItems] : n \in 0..MaxResults}

-----------------------------------------------------------------------------
(* Input texts *)

Words == {"import", "App", "until", "bugfix", "todo", "Note", "ok"}

RECURSIVE TextsOf(_)
TextsOf(n) ==
    IF n = 0 THEN {""}
    ELSE IF n = 1 THEN Words
    ELSE {t \o " " \o w : t \in TextsOf(n - 1), w \in Words}

RECURSIVE Alternate(_, _, _)
Alternate(a, b, n) ==
    IF n = 1 THEN a ELSE a \o " " \o Alternate(b, a, n - 1)

Texts ==
    UNION {TextsOf(n) : n \in 0..MaxWords}
        \cup {Alternate(a, b, MaxRepeat) : a \in {"Note", "until"}, b \in Words}
        \cup {" ", " Note", "until\n\tNote ", "IMPORT", " import App\n"}

\* Inputs of the flow runs
FlowInputs == {"import App", "Note Note ok", "todo", " ", ""}

-----------------------------------------------------------------------------
(* The flows *)

NoError == Err(undefined, undefined)
Pending == [kind |-> "pending"]

Init ==
    /\ flow = "none"
    /\ pc = "idle"
    /\ input = ""
    /\ attempt = 0
    /\ outcomes = <<>>
    /\ sleeps = <<>>
    /\ output = undefined
    /\ result = Pending
    /\ apc = "none"
    /\ store = <<>>
    /\ addResult = Pending
    /\ createCalls = 0
    /\ bpc = "none"
    /\ creates = <<>>
    /\ bulkResult = Pending
    /\ query = ""
    /\ entries = <<>>
    /\ searchResult = <<>>
    /\ now = 0
    /\ removed = {}
    /\ home = [entries |-> <<>>, isLoading |-> TRUE, error |-> undefined]
    /\ cards = <<>>
    /\ calls = {}
    /\ loads = {}
    /\ clicks = 0

\* autoTagEntry(input): enter the retry loop with attempt = 0
InvokeAutoTagEntry(text) ==
    /\ pc = "idle"
    /\ apc = "none"
    /\ bpc = "none"
    /\ flow' = "single"
    /\ input' = text
    /\ attempt' = 0
    /\ pc' = "generate"
    /\ UNCHANGED <<outcomes, sleeps, output, result, addVars, bulkVars, searchVars, uiVars>>

\* bulkAutoTagEntries({rawText}): enter the retry loop with attempt = 0
InvokeBulkAutoTag(text) ==
    /\ pc = "idle"
    /\ apc = "none"
    /\ bpc = "none"
    /\ flow' = "bulk"
    /\ input' = text
    /\ attempt' = 0
    /\ pc' = "generate"
    /\ UNCHANGED <<outcomes, sleeps, output, result, addVars, bulkVars, searchVars, uiVars>>

\* autoTagEntryFlow: ai.generate returned; `result.output || getFallbackResult(input)`
\* goes through validateAndEnhanceOutput and the flow returns.
SingleGenerateReturns(out) ==
    /\ flow = "single"
    /\ pc = "generate"
    /\ outcomes' = Append(outcomes,
            [kind |-> IF out = undefined THEN "empty" ELSE "output", error |-> NoError])
    /\ output' = out
    /\ result' = [kind |-> "record", value |-> enhancedResult(out, input)]
    /\ pc' = "returned"
    /\ UNCHANGED <<flow, input, attempt, sleeps, addVars, bulkVars, searchVars, uiVars>>

\* autoTagEntryFlow: ai.generate threw; the catch block either sleeps and
\* continues the loop or returns the rule-based fallback.
SingleGenerateThrows(error) ==
    /\ flow = "single"
    /\ pc = "generate"
    /\ outcomes' = Append(outcomes, [kind |-> "error", error |-> error])
    /\ IF isRetryableError(error) /\ attempt < maxRetries - 1
         THEN /\ \E jitter \in Jitters :
                    sleeps' = Append(sleeps, exponentialDelay(attempt) + jitter)
              /\ pc' = "sleep"
              /\ UNCHANGED result
         ELSE /\ result' = [kind |-> "record", value |-> getFallbackResult(input)]
              /\ pc' = "returned"
              /\ UNCHANGED sleeps
    /\ UNCHANGED <<flow, input, attempt, output, addVars, bulkVars, searchVars, uiVars>>

\* bulkAutoTagFlow, catch block: sleep and continue, or rethrow.
BulkCatch(error) ==
    IF bulkIsRetryableError(error) /\ attempt < maxRetries - 1
      THEN /\ \E jitter \in Jitters :
                sleeps' = Append(sleeps, exponentialDelay(attempt) + jitter)
           /\ pc' = "sleep"
           /\ UNCHANGED result
      ELSE /\ result' = [kind |-> "throw", error |-> error]
           /\ pc' = "threw"
           /\ UNCHANGED sleeps

\* bulkAutoTagFlow: ai.generate returned; without output the flow throws
\* 'No output generated' inside the try, which its own catch block handles.
BulkGenerateReturns(out) ==
    /\ flow = "bulk"
    /\ pc = "generate"
    /\ outcomes' = Append(outcomes,
            [kind |-> IF out = undefined THEN "empty" ELSE "output", error |-> NoError])
    /\ output' = out
    /\ IF out = undefined
         THEN BulkCatch(Err(undefined, Some("No output generated")))
         ELSE /\ result' = [kind |-> "results", value |-> out[1]]
              /\ pc' = "returned"
              /\ UNCHANGED sleeps
    /\ UNCHANGED <<flow, input, attempt, addVars, bulkVars, searchVars, uiVars>>

\* bulkAutoTagFlow: ai.generate threw.
BulkGenerateThrows(error) ==
    /\ flow = "bulk"
    /\ pc = "generate"
    /\ outcomes' = Append(outcomes, [kind |-> "error", error |-> error])
    /\ BulkCatch(error)
    /\ UNCHANGED <<flow, input, attempt, output, addVars, bulkVars, searchVars, uiVars>>

\* The setTimeout promise resolves: `continue`, attempt++, loop test.  Leaving
\* the loop returns the fallback (single) or throws (bulk).
BackoffElapsed ==
    /\ pc = "sleep"
    /\ attempt' = attempt + 1
    /\ IF attempt + 1 < maxRetries
         THEN pc' = "generate" /\ UNCHANGED result
         ELSE IF flow = "single"
           THEN /\ result' = [kind |-> "record", value |-> getFallbackResult(input)]
                /\ pc' = "returned"
           ELSE /\ result' = [kind |-> "throw",
                              error |-> Err(undefined, Some("Bulk AI generation failed after retries"))]
                /\ pc' = "threw"
    /\ UNCHANGED <<flow, input, outcomes, sleeps, output, addVars, bulkVars, searchVars, uiVars>>

-----------------------------------------------------------------------------
(* addEntry and the entries collection *)

\* Firestore stores null where an entry has no value; the model writes null
\* and undefined alike.
null == undefined

\* addEntry, step 2: the entry built from the classification
entryData(content, aiResult) ==
    [createdAt         |-> now,
     updatedAt         |-> now,
     content           |-> content,
     translatedContent |-> aiResult.translatedContent,
     detectedLanguage  |-> aiResult.detectedLanguage,
     category          |-> aiResult.category,
     tags              |-> aiResult.tags,
     containsSlang     |-> aiResult.containsSlang,
     confidence        |-> aiResult.confidence,
     reasoning         |-> aiResult.reasoning,
     userId            |-> "anonymous",
     isCompleted       |-> FALSE]

\* addEntry, catch block: the entry saved when a step other than the store failed
fallbackEntry(content) ==
    [createdAt         |-> now,
     updatedAt         |-> now,
     content           |-> content,
     translatedContent |-> content,
     detectedLanguage  |-> "en",
     category          |-> "general",
     tags              |-> <<>>,
     containsSlang     |-> FALSE,
     confidence        |-> Some(30),
     reasoning         |-> Some("AI processing failed, using fallback categorization"),
     userId            |-> "anonymous",
     isCompleted       |-> FALSE]

\* entryToDoc
entryToDoc(entry) ==
    [entry EXCEPT
        !.reasoning = IF entry.reasoning = undefined \/ entry.reasoning = Some("")
                        THEN null ELSE entry.reasoning,
        !.userId = IF entry.userId = "" THEN "anonymous" ELSE entry.userId]

\* createEntry resolved: { id: docRef.id, ...entry }
savedEntry(id, entry) == [id |-> id, entry |-> entry]

AddInputs == {"import App", " ", ""}

\* A mutation of addEntry: the blank check is left out.
InvokeAddEntryUnchecked(content) ==
    /\ pc = "idle"
    /\ apc = "none"
    /\ bpc = "none"
    /\ input' = content
    /\ apc' = "classify"
    /\ flow' = "single"
    /\ attempt' = 0
    /\ pc' = "generate"
    /\ UNCHANGED <<outcomes, sleeps, output, result, store, addResult, bulkVars, searchVars, uiVars>>

\* addEntry(content): a blank content is refused before anything is called;
\* otherwise the classification starts.
InvokeAddEntry(content) ==
    /\ pc = "idle"
    /\ apc = "none"
    /\ bpc = "none"
    /\ input' = content
    /\ IF trim(content) = ""
         THEN /\ apc' = "threw"
              /\ addResult' = [kind |-> "throw", message |-> "Content cannot be empty."]
              /\ UNCHANGED <<flow, pc, attempt>>
         ELSE /\ apc' = "classify"
              /\ flow' = "single"
              /\ attempt' = 0
              /\ pc' = "generate"
              /\ UNCHANGED addResult
    /\ UNCHANGED <<outcomes, sleeps, output, result, store, bulkVars, searchVars, uiVars>>

\* addEntry: autoTagEntry returned aiResult and createEntry(entryData)
\* resolved.  revalidatePath('/') follows in the same try block: when it
\* throws, the catch block (the error does not name Firestore) goes on to save
\* the fallback entry.
CreateEntryResolves(revalidated) ==
    /\ apc = "classify"
    /\ pc = "returned"
    /\ LET entry == entryData(input, result.value)
       IN /\ store' = Append(store, entryToDoc(entry))
          /\ IF revalidated
               THEN /\ apc' = "returned"
                    /\ addResult' = [kind |-> "entry",
                                     value |-> savedEntry(Len(store) + 1, entry)]
               ELSE /\ apc' = "create"
                    /\ UNCHANGED addResult
    /\ createCalls' = createCalls + 1
    /\ UNCHANGED <<flow, pc, input, attempt, outcomes, sleeps, output, result>>
    /\ UNCHANGED <<bpc, creates, bulkResult, searchVars, uiVars>>

\* A mutation of addEntry: a rejected createEntry(entryData) goes on to save
\* the fallback entry like any other failure.
CreateEntryRejectsIntoFallback ==
    /\ apc = "classify"
    /\ pc = "returned"
    /\ apc' = "create"
    /\ createCalls' = createCalls + 1
    /\ UNCHANGED <<flow, pc, input, attempt, outcomes, sleeps, output, result, store, addResult>>
    /\ UNCHANGED <<bpc, creates, bulkResult, searchVars, uiVars>>

\* addEntry: createEntry(entryData) rejected with 'Failed to create entry in
\* Firestore'; the catch block rethrows it as a database error.
CreateEntryRejects ==
    /\ apc = "classify"
    /\ pc = "returned"
    /\ apc' = "threw"
    /\ addResult' = [kind |-> "throw",
                     message |-> "Database error: Failed to create entry in Firestore"]
    /\ createCalls' = createCalls + 1
    /\ UNCHANGED <<flow, pc, input, attempt, outcomes, sleeps, output, result, store>>
    /\ UNCHANGED <<bpc, creates, bulkResult, searchVars, uiVars>>

\* addEntry, catch block: createEntry(fallbackEntry) resolved.
FallbackCreateResolves ==
    /\ apc = "create"
    /\ store' = Append(store, entryToDoc(fallbackEntry(input)))
    /\ apc' = "returned"
    /\ addResult' = [kind |-> "entry",
                     value |-> savedEntry(Len(store) + 1, fallbackEntry(input))]
    /\ createCalls' = createCalls + 1
    /\ UNCHANGED <<flow, pc, input, attempt, outcomes, sleeps, output, result>>
    /\ UNCHANGED <<bpc, creates, bulkResult, searchVars, uiVars>>

\* addEntry, catch block: createEntry(fallbackEntry) rejected.
FallbackCreateRejects ==
    /\ apc = "create"
    /\ apc' = "threw"
    /\ addResult' = [kind |-> "throw",
                     message |-> "Critical error: Both AI and database operations failed"]
    /\ createCalls' = createCalls + 1
    /\ UNCHANGED <<flow, pc, input, attempt, outcomes, sleeps, output, result, store>>
    /\ UNCHANGED <<bpc, creates, bulkResult, searchVars, uiVars>>

-----------------------------------------------------------------------------
(* bulkAddEntries *)

\* rawContent.split('\n')
RECURSIVE splitLines(_)
splitLines(s) ==
    LET breaks == {i \in 1..Len(s) : CharAt(s, i) = "\n"}
    IN IF breaks = {} THEN <<s>>
       ELSE LET i == CHOOSE k \in breaks : \A j \in breaks : k <= j
            IN <<SubSeq(s, 1, i - 1)>> \o splitLines(SubSeq(s, i + 1, Len(s)))

\* A mutation of backupEntries: the filter(e => e.length > 0) is left out.
backupEntriesUnfiltered(rawContent) ==
    LET lines == splitLines(rawContent)
    IN [i \in 1..Len(lines) |-> trim(lines[i])]

\* bulkAddEntries, catch block: the lines of the raw content, trimmed, the
\* empty ones dropped
backupEntries(rawContent) ==
    LET lines == splitLines(rawContent)
    IN SelectSeq([i \in 1..Len(lines) |-> trim(lines[i])], LAMBDA e : Len(e) > 0)

\* bulkAddEntries, catch block: the entry saved for one line
bulkFallbackEntry(content) ==
    [createdAt         |-> now,
     updatedAt         |-> now,
     content           |-> content,
     translatedContent |-> content,
     detectedLanguage  |-> "en",
     category          |-> "general",
     tags              |-> <<"bulk-import-failed">>,
     containsSlang     |-> FALSE,
     confidence        |-> Some(0),
     reasoning         |-> Some("Smart import failed, fallback to raw lines"),
     userId            |-> "anonymous",
     isCompleted       |-> FALSE]

\* bulkAddEntries, step 3: the entry built from one item of the oracle's answer
bulkEntryData(item) ==
    [createdAt         |-> now,
     updatedAt         |-> now,
     content           |-> IF item.translatedContent = "" THEN "Empty Content"
                           ELSE item.translatedContent,
     translatedContent |-> item.translatedContent,
     detectedLanguage  |-> item.detectedLanguage,
     category          |-> item.category,
     tags              |-> item.tags,
     containsSlang     |-> item.containsSlang,
     confidence        |-> IF item.confidence = undefined THEN Some(80) ELSE item.confidence,
     reasoning         |-> item.reasoning,
     userId            |-> "anonymous",
     isCompleted       |-> item.isCompleted]

\* The length above which a single item is not believed
largeInputLength == 200

RECURSIVE Repeat(_, _)
Repeat(s, n) == IF n = 0 THEN "" ELSE s \o Repeat(s, n - 1)

\* Raw contents handed to bulkAddEntries: blank ones, a few short lines with a
\* blank line among them, and texts of 200 and of more than 200 characters.
BulkAddInputs ==
    {"", " \n", "buy milk\n \n fix login bug ",
     Repeat("todo fix ", 22) \o "ok",
     Repeat("todo fix ", 22) \o "okay",
     Repeat("todo fix ", 22) \o "\nokay"}

\* A createEntry call that bulkAddEntries started
createCall(phase, entry) == [phase |-> phase, entry |-> entry, state |-> "pending"]

\* savePromises: one createEntry call per item of the oracle's answer
savePromises(results) ==
    [i \in 1..Len(results) |-> createCall("oracle", bulkEntryData(results[i]))]

\* fallbackPromises: one createEntry call per backup entry
fallbackPromises(rawContent) ==
    LET backup == backupEntries(rawContent)
    IN [i \in 1..Len(backup) |-> createCall("fallback", bulkFallbackEntry(backup[i]))]

Count(n) == [kind |-> "count", value |-> n]

CallsOf(phase) == {i \in DOMAIN creates : creates[i].phase = phase}

\* bulkAddEntries(rawContent): a blank content returns 0 before anything is
\* called; otherwise the bulk classification starts.
InvokeBulkAddEntries(rawContent) ==
    /\ pc = "idle"
    /\ apc = "none"
    /\ bpc = "none"
    /\ input' = rawContent
    /\ IF trim(rawContent) = ""
         THEN /\ bpc' = "returned"
              /\ bulkResult' = Count(0)
              /\ UNCHANGED <<flow, pc, attempt>>
         ELSE /\ bpc' = "classify"
              /\ flow' = "bulk"
              /\ attempt' = 0
              /\ pc' = "generate"
              /\ UNCHANGED bulkResult
    /\ UNCHANGED <<outcomes, sleeps, output, result, addVars, createCalls, creates, searchVars, uiVars>>

\* A mutation of bulkAddEntries: an answer without results is taken for a
\* failure and goes to the catch block.
BulkClassifiedEmptyFallsBack ==
    /\ bpc = "classify"
    /\ pc = "returned"
    /\ LET results == result.value
       IN IF Len(results) = 0 \/ (Len(results) = 1 /\ Len(input) > largeInputLength)
            THEN /\ bpc' = "fallback"
                 /\ creates' = fallbackPromises(input)
                 /\ createCalls' = createCalls + Len(fallbackPromises(input))
                 /\ UNCHANGED bulkResult
            ELSE /\ bpc' = "saving"
                 /\ creates' = savePromises(results)
                 /\ createCalls' = createCalls + Len(results)
                 /\ UNCHANGED bulkResult
    /\ UNCHANGED <<flow, pc, input, attempt, outcomes, sleeps, output, result, addVars, searchVars, uiVars>>

\* bulkAddEntries: bulkAutoTagEntries returned.  No result returns 0; a single
\* result for a large input throws into the catch block, which starts the
\* fallback createEntry calls; otherwise one createEntry call per result starts.
BulkClassified ==
    /\ bpc = "classify"
    /\ pc = "returned"
    /\ LET results == result.value
       IN IF Len(results) = 0
            THEN /\ bpc' = "returned"
                 /\ bulkResult' = Count(0)
                 /\ UNCHANGED <<creates, createCalls>>
            ELSE IF Len(results) = 1 /\ Len(input) > largeInputLength
              THEN /\ bpc' = "fallback"
                   /\ creates' = fallbackPromises(input)
                   /\ createCalls' = createCalls + Len(fallbackPromises(input))
                   /\ UNCHANGED bulkResult
              ELSE /\ bpc' = "saving"
                   /\ creates' = savePromises(results)
                   /\ createCalls' = createCalls + Len(results)
                   /\ UNCHANGED bulkResult
    /\ UNCHANGED <<flow, pc, input, attempt, outcomes, sleeps, output, result, addVars, searchVars, uiVars>>

\* bulkAddEntries: bulkAutoTagEntries threw; the catch block starts the
\* fallback createEntry calls.
BulkClassifyFailed ==
    /\ bpc = "classify"
    /\ pc = "threw"
    /\ bpc' = "fallback"
    /\ creates' = fallbackPromises(input)
    /\ createCalls' = createCalls + Len(fallbackPromises(input))
    /\ UNCHANGED <<flow, pc, input, attempt, outcomes, sleeps, output, result, addVars,
                   bulkResult, searchVars, uiVars>>

\* One createEntry call resolved: its document is in the collection.  When it
\* was the last of the calls Promise.all is awaiting, bulkAddEntries calls
\* revalidatePath('/'), which returns, and returns their number.
BulkCreateResolves(i) ==
    /\ bpc \in {"saving", "fallback", "returned", "threw"}
    /\ i \in DOMAIN creates
    /\ creates[i].state = "pending"
    /\ creates' = [creates EXCEPT ![i].state = "resolved"]
    /\ store' = Append(store, entryToDoc(creates[i].entry))
    /\ LET awaited == IF bpc = "saving" THEN "oracle"
                      ELSE IF bpc = "fallback" THEN "fallback" ELSE "none"
       IN IF /\ creates[i].phase = awaited
             /\ \A j \in CallsOf(awaited) \ {i} : creates[j].state = "resolved"
            THEN /\ bpc' = "returned"
                 /\ bulkResult' = Count(Cardinality(CallsOf(awaited)))
            ELSE UNCHANGED <<bpc, bulkResult>>
    /\ UNCHANGED <<flow, pc, input, attempt, outcomes, sleeps, output, result, apc, addResult,
                   createCalls, searchVars, uiVars>>

\* One createEntry call rejected.  Promise.all rejects with the first
\* rejection among the calls it is awaiting: the try block's goes to the
\* catch block, which starts the fallback createEntry calls; the catch
\* block's leaves bulkAddEntries.  The other calls stay in flight.
BulkCreateRejects(i) ==
    /\ bpc \in {"saving", "fallback", "returned", "threw"}
    /\ i \in DOMAIN creates
    /\ creates[i].state = "pending"
    /\ LET settled == [creates EXCEPT ![i].state = "rejected"]
       IN IF bpc = "saving" /\ creates[i].phase = "oracle"
            THEN /\ bpc' = "fallback"
                 /\ creates' = settled \o fallbackPromises(input)
                 /\ createCalls' = createCalls + Len(fallbackPromises(input))
                 /\ UNCHANGED bulkResult
            ELSE IF bpc = "fallback" /\ creates[i].phase = "fallback"
              THEN /\ bpc' = "threw"
                   /\ creates' = settled
                   /\ bulkResult' = [kind |-> "throw",
                                     message |-> "Failed to create entry in Firestore"]
                   /\ UNCHANGED createCalls
              ELSE /\ creates' = settled
                   /\ UNCHANGED <<bpc, bulkResult, createCalls>>
    /\ UNCHANGED <<flow, pc, input, attempt, outcomes, sleeps, output, result, addVars, searchVars, uiVars>>

Next ==
    \/ \E text \in FlowInputs : InvokeAutoTagEntry(text)
    \/ \E content \in AddInputs : InvokeAddEntry(content)
    \/ \E revalidated \in BOOLEAN : CreateEntryResolves(revalidated)
    \/ CreateEntryRejects
    \/ FallbackCreateResolves
    \/ FallbackCreateRejects
    \/ \E text \in FlowInputs : InvokeBulkAutoTag(text)
    \/ \E out \in {undefined} \cup {Some(o) : o \in OracleOutputs} : SingleGenerateReturns(out)
    \/ \E error \in OracleErrors : SingleGenerateThrows(error)
    \/ \E out \in {undefined} \cup {Some(o) : o \in BulkOutputs} : BulkGenerateReturns(out)
    \/ \E error \in OracleErrors : BulkGenerateThrows(error)
    \/ BackoffElapsed

Spec == Init /\ [][Next]_vars

-----------------------------------------------------------------------------
(* The two ingestion paths, addEntry and bulkAddEntries, on top of the flows *)

\* The oracle failures of the ingestion runs: one the flows retry, one they
\* do not.
IngestErrors == {Err(Some(503), undefined), Err(undefined, Some("API key not valid"))}

IngestNext ==
    \/ \E content \in AddInputs : InvokeAddEntry(content)
    \/ \E revalidated \in BOOLEAN : CreateEntryResolves(revalidated)
    \/ CreateEntryRejects
    \/ FallbackCreateResolves
    \/ FallbackCreateRejects
    \/ \E rawContent \in BulkAddInputs : InvokeBulkAddEntries(rawContent)
    \/ BulkClassified
    \/ BulkClassifyFailed
    \/ \E i \in DOMAIN creates : BulkCreateResolves(i)
    \/ \E i \in DOMAIN creates : BulkCreateRejects(i)
    \/ \E out \in {undefined} \cup {Some(o) : o \in OracleOutputs} : SingleGenerateReturns(out)
    \/ \E error \in IngestErrors : SingleGenerateThrows(error)
    \/ \E out \in {undefined} \cup {Some(o) : o \in BulkOutputs} : BulkGenerateReturns(out)
    \/ \E error \in IngestErrors : BulkGenerateThrows(error)
    \/ BackoffElapsed

IngestSpec == Init /\ [][IngestNext]_vars

-----------------------------------------------------------------------------
(* The classifier's pure functions applied to every text of Texts *)

ClassifyInit ==
    /\ flow = "none"
    /\ pc = "idle"
    /\ input \in Texts
    /\ attempt = 0
    /\ outcomes = <<>>
    /\ sleeps = <<>>
    /\ output = undefined
    /\ result = Pending
    /\ apc = "none"
    /\ store = <<>>
    /\ addResult = Pending
    /\ createCalls = 0
    /\ bpc = "none"
    /\ creates = <<>>
    /\ bulkResult = Pending
    /\ query = ""
    /\ entries = <<>>
    /\ searchResult = <<>>
    /\ now = 0
    /\ removed = {}
    /\ home = [entries |-> <<>>, isLoading |-> TRUE, error |-> undefined]
    /\ cards = <<>>
    /\ calls = {}
    /\ loads = {}
    /\ clicks = 0

\* getFallbackResult(input)
ApplyGetFallbackResult ==
    /\ pc = "idle"
    /\ result' = [kind |-> "record", value |-> getFallbackResult(input)]
    /\ pc' = "fallback"
    /\ UNCHANGED <<flow, input, attempt, outcomes, sleeps, output, addVars, bulkVars, searchVars, uiVars>>

\* validateAndEnhanceOutput(result.output || getFallbackResult(input), input)
ApplyValidateAndEnhanceOutput(out) ==
    /\ pc = "idle"
    /\ output' = out
    /\ result' = [kind |-> "record", value |-> enhancedResult(out, input)]
    /\ pc' = "validated"
    /\ UNCHANGED <<flow, input, attempt, outcomes, sleeps, addVars, bulkVars, searchVars, uiVars>>

ClassifyNext ==
    \/ ApplyGetFallbackResult
    \/ \E out \in {undefined} \cup {Some(o) : o \in OracleOutputs} :
            ApplyValidateAndEnhanceOutput(out)

ClassifySpec == ClassifyInit /\ [][ClassifyNext]_vars

-----------------------------------------------------------------------------
(* Properties of the retry loop (Spec) *)

\* The keyword families of the rule-based fallback, in their order.
FamilyOrder == <<"code_snippet", "idea", "learning_note", "bug_fix", "task">>

FamilyKeywords ==
    <<{"function", "const", "import"}, {"app", "build", "develop"},
      {"learn", "til", "discovered"}, {"bug", "fix", "error"},
      {"task", "todo", "reminder"}>>

\* The families with a keyword that occurs in the text, whatever its case.
FamiliesIn(text) ==
    {f \in 1..5 : \E k \in FamilyKeywords[f] : includes(toLowerCase(text), k)}

Finished == pc \in {"returned", "threw"}

\* The transient signals of the retry policy as documented: overload (503),
\* quota or resource exhaustion, timeout or deadline exceeded.
TransientSignal(error) ==
    \/ error.status = Some(503)
    \/ \E marker \in {"503", "overloaded", "quota", "RESOURCE_EXHAUSTED",
                      "resource exhausted", "timeout", "DEADLINE_EXCEEDED"} :
            messageIncludes(error, marker)

TransientFailure(n) ==
    outcomes[n].kind = "error" /\ TransientSignal(outcomes[n].error)

\* C1: in one invocation of either flow the oracle is called at most 3 times,
\* and a finished invocation has called it at least once.
C1_OracleCallsBounded ==
    /\ Len(outcomes) <= 3
    /\ Finished => Len(outcomes) >= 1

C1_Witness ==
    /\ flow = "bulk"
    /\ pc = "threw"
    /\ Len(outcomes) = 3

\* C2: attempt n is followed by attempt n+1 if and only if attempt n failed with
\* a transient signal and n < 3.
C2_RetryIffTransient ==
    \A n \in 1..Len(outcomes) :
        /\ n < Len(outcomes) => (TransientFailure(n) /\ n < 3)
        /\ (Finished /\ TransientFailure(n) /\ n < 3) => n < Len(outcomes)

\* C3: the two flows classify every oracle failure signal alike: the
\* single-entry flow retries it if and only if the bulk flow retries it.
C3_SharedClassification ==
    \A n \in 1..Len(outcomes) :
        outcomes[n].kind = "error" =>
            (isRetryableError(outcomes[n].error) <=> bulkIsRetryableError(outcomes[n].error))

\* C4: sleep n follows the transiently failed attempt n (n = 1 or 2) and
\* precedes attempt n+1; it lasts min(1000 * 2^(n-1), 10000) ms plus a jitter
\* in [0, 500), so less than 10500 ms; at most two sleeps per invocation, none
\* after the final attempt or after a permanent failure.
C4_BackoffSleeps ==
    /\ Len(sleeps) <= 2
    /\ Len(sleeps) <= Len(outcomes)
    /\ \A n \in 1..Len(sleeps) :
        /\ TransientFailure(n)
        /\ sleeps[n] - Min(1000 * (2 ^ (n - 1)), 10000) \in 0..499
        /\ sleeps[n] < 10500
    /\ pc = "sleep" => Len(sleeps) = Len(outcomes)
    /\ pc = "generate" => Len(sleeps) = Len(outcomes)
    /\ Finished => Len(sleeps) = Len(outcomes) - 1
    /\ \A n \in 1..Len(outcomes) :
        (n = 3 \/ ~TransientFailure(n)) => Len(sleeps) < n

C4_Witness ==
    /\ Finished
    /\ Len(sleeps) = 2
    /\ sleeps[1] = 1000
    /\ sleeps[2] = 2499

\* C5: autoTagEntry on an input that is not blank never throws, and the record
\* it returns has a category of the enumeration, a confidence in [0, 1] and a
\* translatedContent that is not empty, whatever the oracle did.
C5_AlwaysAValidRecord ==
    (flow = "single" /\ trim(input) # "") =>
        /\ pc # "threw"
        /\ pc = "returned" =>
            /\ result.kind = "record"
            /\ result.value.category \in Categories
            /\ result.value.confidence # undefined
            /\ result.value.confidence[1] >= 0
            /\ result.value.confidence[1] <= 100
            /\ result.value.translatedContent # ""

C5_Witness ==
    /\ flow = "single"
    /\ trim(input) # ""
    /\ pc = "returned"
    /\ Len(outcomes) = 3
    /\ \A n \in 1..3 : outcomes[n].kind = "error"


\* The oracle's last answer was refused for a category outside the enumeration.
CategoryRefused ==
    /\ flow = "single"
    /\ pc = "returned"
    /\ Len(outcomes) >= 1
    /\ outcomes[Len(outcomes)].kind = "error"
    /\ outcomes[Len(outcomes)].error = SchemaViolation

-----------------------------------------------------------------------------
(* Properties of the classifier's pure functions (ClassifySpec) *)

\* The record is the rule-based fallback: getFallbackResult was applied, or
\* the oracle returned no output and the fallback went through validation.
FromFallback ==
    \/ pc = "fallback"
    \/ pc = "validated" /\ output = undefined

\* C6: the fallback category is that of the earliest family, in the order code >
\* idea > learning > bug > task, with a keyword in the text, and general
\* exactly when no family has one.
C6_FirstMatchingFamily ==
    FromFallback =>
        LET hits == FamiliesIn(input)
        IN /\ hits = {} <=> result.value.category = "general"
           /\ \A f \in hits :
                (\A g \in hits : f <= g) => result.value.category = FamilyOrder[f]

C6_Witness ==
    /\ pc = "fallback"
    /\ Cardinality(FamiliesIn(input)) = 2
    /\ 1 \in FamiliesIn(input)
    /\ result.value.category = "code_snippet"
    /\ input # toLowerCase(input)

\* C7: a fallback record has detectedLanguage en, the raw input as its
\* translatedContent, containsSlang false, a reasoning that names the rule-based
\* fallback, and confidence 0.4 without a keyword match and 0.5 or 0.6 with one.
C7_FallbackRecord ==
    FromFallback =>
        /\ result.value.detectedLanguage = "en"
        /\ result.value.translatedContent = input
        /\ result.value.containsSlang = FALSE
        /\ result.value.reasoning # undefined
        /\ includes(result.value.reasoning[1], "rule-based fallback")
        /\ result.value.confidence # undefined
        /\ IF FamiliesIn(input) = {}
             THEN result.value.confidence[1] = 40
             ELSE result.value.confidence[1] \in {50, 60}

C7_Witness ==
    /\ pc = "validated"
    /\ output = undefined
    /\ FamiliesIn(input) # {}
    /\ result.value.confidence = Some(60)
    /\ trim(input) # input

\* C8: validation keeps a confidence of the oracle that lies in [0, 1], bounds
\* included, and sets 0.7 exactly when it is missing or outside [0, 1].
C8_ConfidenceKeptInRange ==
    (pc = "validated" /\ output # undefined) =>
        LET c == output[1].confidence
        IN IF c # undefined /\ c[1] >= 0 /\ c[1] <= 100
             THEN result.value.confidence = c
             ELSE result.value.confidence = Some(70)

\* The record's tags were derived from the raw text: the fallback produced the
\* record, or the oracle returned no tags.
TagsDerived ==
    \/ FromFallback
    \/ pc = "validated" /\ output # undefined /\ output[1].tags = <<>>

Distinct(seq) == \A i, j \in 1..Len(seq) : i # j => seq[i] # seq[j]

SeqToSet(seq) == {seq[i] : i \in 1..Len(seq)}

\* C9 as claimed: derived tags are at most 5 pairwise distinct
\* whitespace-delimited tokens of the raw text (read without regard to case)
\* longer than 3 characters, or the single tag general when none qualifies; a
\* returned tag list is never empty.
C9_DistinctRawTokens ==
    /\ TagsDerived =>
        LET qualifying == {toLowerCase(t) : t \in {u \in SeqToSet(split(input)) : Len(u) > 3}}
        IN IF qualifying = {}
             THEN result.value.tags = <<"general">>
             ELSE /\ Len(result.value.tags) <= 5
                  /\ SeqToSet(result.value.tags) \subseteq qualifying
                  /\ Distinct(result.value.tags)
    /\ pc \in {"fallback", "validated"} => Len(result.value.tags) > 0

\* C9 as amended: derived tags are the first (at most 5) whitespace-delimited
\* tokens of the lower-cased raw text that are longer than 3 characters, in
\* their order and with repetitions kept, or the single tag general when none
\* qualifies; a returned tag list is never empty.
C9_FirstFiveLowerCasedTokens ==
    /\ TagsDerived =>
        LET tokens == split(toLowerCase(input))
            long == {i \in 1..Len(tokens) : Len(tokens[i]) > 3}
            tags == result.value.tags
        IN IF long = {}
             THEN tags = <<"general">>
             ELSE /\ Len(tags) = Min(5, Cardinality(long))
                  /\ \A n \in 1..Len(tags) :
                        \E i \in long :
                            /\ tags[n] = tokens[i]
                            /\ Cardinality({k \in long : k < i}) = n - 1
    /\ pc \in {"fallback", "validated"} => Len(result.value.tags) > 0

C9_Witness ==
    /\ pc = "validated"
    /\ output # undefined
    /\ output[1].tags = <<>>
    /\ Len(result.value.tags) = 5
    /\ result.value.tags[1] = result.value.tags[3]
    /\ result.value.tags[1] \notin SeqToSet(split(input))

-----------------------------------------------------------------------------
(* localSearch *)

MaxEntries == 2     \* entries handed to localSearch

\* Array.prototype.join(sep)
RECURSIVE join(_, _)
join(seq, sep) ==
    IF Len(seq) = 0 THEN ""
    ELSE IF Len(seq) = 1 THEN seq[1]
    ELSE seq[1] \o sep \o join(Tail(seq), sep)

\* s.replace(/_/g, ' ')
RECURSIVE replaceUnderscores(_)
replaceUnderscores(s) ==
    IF Len(s) = 0 THEN ""
    ELSE (IF CharAt(s, 1) = "_" THEN " " ELSE CharAt(s, 1))
            \o replaceUnderscores(SubSeq(s, 2, Len(s)))

\* `value || ''` of an optional string
orEmpty(value) == IF value = undefined THEN "" ELSE value[1]

\* The fields of an entry that localSearch looks into, in its order
searchableFields(entry) ==
    <<entry.content, orEmpty(entry.translatedContent), replaceUnderscores(entry.category)>>
        \o entry.tags \o <<orEmpty(entry.reasoning)>>

\* A mutation of searchableContent: the fields are joined without a separator.
searchableContentGlued(entry) == toLowerCase(join(searchableFields(entry), ""))

\* localSearch: searchableContent
searchableContent(entry) == toLowerCase(join(searchableFields(entry), " "))

\* localSearch: terms
terms(q) == SelectSeq(split(toLowerCase(q)), LAMBDA t : Len(t) > 1)

\* A mutation of localSearch: a blank query finds nothing.
localSearchBlankFindsNothing(q, es) ==
    IF trim(q) = "" THEN <<>>
    ELSE SelectSeq(es, LAMBDA entry :
            \A k \in DOMAIN terms(q) : includes(searchableContent(entry), terms(q)[k]))

localSearch(q, es) ==
    IF trim(q) = "" THEN es
    ELSE SelectSeq(es, LAMBDA entry :
            \A k \in DOMAIN terms(q) : includes(searchableContent(entry), terms(q)[k]))

SearchEntry(id, content, translated, category, tags, reasoning) ==
    [id |-> id, content |-> content, translatedContent |-> translated,
     category |-> category, tags |-> tags, reasoning |-> reasoning]

SearchEntries ==
    {SearchEntry("e1", "Fix Login BUG", undefined, "bug_fix", <<"auth", "react">>, undefined),
     SearchEntry("e2", "buy milk", Some("doodh lana"), "task", <<>>, Some("Shopping errand")),
     SearchEntry("e3", "ab", Some("cd"), "learning_note", <<"re", "act">>, undefined)}

EntryLists == UNION {[1..n -> SearchEntries] : n \in 0..MaxEntries}

Queries ==
    {"", " ", "bug", "BUG fix", "bug_fix", "a", "a bug", "react", "abcd", "ab cd",
     "learning note", "milk  errand", "  login\n", "zz", "doodh", "auth\treact"}

SearchInit ==
    /\ flow = "none"
    /\ pc = "idle"
    /\ input = ""
    /\ attempt = 0
    /\ outcomes = <<>>
    /\ sleeps = <<>>
    /\ output = undefined
    /\ result = Pending
    /\ apc = "none"
    /\ store = <<>>
    /\ addResult = Pending
    /\ createCalls = 0
    /\ bpc = "none"
    /\ creates = <<>>
    /\ bulkResult = Pending
    /\ query \in Queries
    /\ entries \in EntryLists
    /\ searchResult = <<>>
    /\ now = 0
    /\ removed = {}
    /\ home = [entries |-> <<>>, isLoading |-> TRUE, error |-> undefined]
    /\ cards = <<>>
    /\ calls = {}
    /\ loads = {}
    /\ clicks = 0

\* localSearch(query, entries), called once and then once more with the same
\* arguments; entries.filter builds a new array and leaves entries alone.
ApplyLocalSearch ==
    /\ pc \in {"idle", "searched"}
    /\ searchResult' = localSearch(query, entries)
    /\ pc' = IF pc = "idle" THEN "searched" ELSE "searchedAgain"
    /\ UNCHANGED <<flow, input, attempt, outcomes, sleeps, output, result, addVars, bulkVars,
                   query, entries, uiVars>>

SearchNext == ApplyLocalSearch

SearchSpec == SearchInit /\ [][SearchNext]_vars

-----------------------------------------------------------------------------
(* The Home page, its entry cards and the server actions they call *)

MaxClicks == 2      \* button clicks of one run
MaxTime == 1        \* clock ticks of one run

\* docToEntry(docId, data)
docToEntry(docId, data) ==
    [data EXCEPT
        !.confidence = IF data.confidence = undefined \/ data.confidence = Some(0)
                         THEN Some(50) ELSE data.confidence] @@ [id |-> docId]

\* The documents a query on the collection sees: those of userId 'anonymous',
\* ordered by createdAt descending (equal times by document id, in the same
\* direction)
RECURSIVE orderedDesc(_, _)
orderedDesc(st, ids) ==
    IF ids = {} THEN <<>>
    ELSE LET first == CHOOSE k \in ids : \A j \in ids :
                        \/ st[k].createdAt > st[j].createdAt
                        \/ st[k].createdAt = st[j].createdAt /\ k >= j
         IN <<first>> \o orderedDesc(st, ids \ {first})

loadLimit == 100

\* getEntries({limit: 100, orderByField: 'createdAt', orderByDirection: 'desc'})
getEntries(st, rem) ==
    LET ids == orderedDesc(st, {k \in DOMAIN st : k \notin rem /\ st[k].userId = "anonymous"})
    IN slice([i \in 1..Len(ids) |-> docToEntry(ids[i], st[ids[i]])], loadLimit)

\* A mutation of updateDoc: createdAt is written along with updatedAt.
updateDocTouchingCreatedAt(data, isCompleted, time) ==
    [data EXCEPT !.isCompleted = isCompleted, !.updatedAt = time, !.createdAt = time]

\* updateEntry(entryId, {isCompleted}): updateDoc(docRef, {isCompleted, updatedAt})
updateDoc(data, isCompleted, time) ==
    [data EXCEPT !.isCompleted = isCompleted, !.updatedAt = time]

\* The documents the collection starts with
StoreDocs ==
    {entryToDoc(bulkFallbackEntry("buy milk")),
     entryToDoc(fallbackEntry("fix login")),
     entryToDoc(bulkEntryData(BulkItem("ship it", Some(90), TRUE)))}

\* The list of cards is rendered
Visible(h) == ~h.isLoading /\ h.error = undefined

ShownIds(h) == IF Visible(h) THEN {h.entries[i].id : i \in DOMAIN h.entries} ELSE {}

\* The cards mounted for the page state h, none of them pending
Mounted(h) == [id \in ShownIds(h) |-> FALSE]

Index(h, id) == CHOOSE i \in DOMAIN h.entries : h.entries[i].id = id

\* setEntries(prev => prev.map(e => e.id === entryId ? {...e, isCompleted} : e))
withCompletion(es, id, isCompleted) ==
    [i \in DOMAIN es |-> IF es[i].id = id THEN [es[i] EXCEPT !.isCompleted = isCompleted]
                         ELSE es[i]]

\* loadEntries, up to its await
startLoad(h) == [h EXCEPT !.isLoading = TRUE, !.error = undefined]

\* A loadEntries call, with what called it: the mount effect or the failure
\* handler of a server action
Load(cause) == [cause |-> cause, snapshot |-> undefined]

UiInit ==
    /\ flow = "none"
    /\ pc = "idle"
    /\ input = ""
    /\ attempt = 0
    /\ outcomes = <<>>
    /\ sleeps = <<>>
    /\ output = undefined
    /\ result = Pending
    /\ apc = "none"
    /\ addResult = Pending
    /\ createCalls = 0
    /\ bpc = "none"
    /\ creates = <<>>
    /\ bulkResult = Pending
    /\ query = ""
    /\ entries = <<>>
    /\ searchResult = <<>>
    /\ now = 0
    /\ store \in [1..2 -> StoreDocs]
    /\ removed = {}
    /\ home = [entries |-> <<>>, isLoading |-> TRUE, error |-> undefined]
    /\ cards = <<>>
    /\ calls = {}
    /\ loads = {Load([kind |-> "mount"])}
    /\ clicks = 0

nonUiVars == <<flow, pc, input, attempt, outcomes, sleeps, output, result, apc, addResult,
               bulkVars, searchVars>>

\* The clock advances
Tick ==
    /\ now < MaxTime
    /\ now' = now + 1
    /\ UNCHANGED <<nonUiVars, store, removed, home, cards, calls, loads, clicks>>


Call(kind, n, id, isCompleted) ==
    [kind |-> kind, n |-> n, id |-> id, isCompleted |-> isCompleted, state |-> "sent"]

\* EntryCard, the Toggle Done button: the optimistic update through
\* handleToggleCompletion, then the server action in a transition.  The
\* entry changes between the active and the completed list of EntryList, so
\* its card is mounted anew, isPending false.
ClickToggle(id) ==
    /\ clicks < MaxClicks
    /\ id \in DOMAIN cards
    /\ ~cards[id]
    /\ LET newIsCompleted == ~home.entries[Index(home, id)].isCompleted
       IN /\ home' = [home EXCEPT !.entries = withCompletion(@, id, newIsCompleted)]
          /\ calls' = calls \cup {Call("toggle", clicks + 1, id, newIsCompleted)}
    /\ cards' = [k \in DOMAIN cards |-> IF k = id THEN FALSE ELSE cards[k]]
    /\ clicks' = clicks + 1
    /\ UNCHANGED <<nonUiVars, store, removed, now, loads>>

\* EntryCard, the Delete button (confirmed): the optimistic removal through
\* handleDeleteEntry, which unmounts the card, then the server action.
ClickDelete(id) ==
    /\ clicks < MaxClicks
    /\ id \in DOMAIN cards
    /\ ~cards[id]
    /\ home' = [home EXCEPT !.entries = SelectSeq(@, LAMBDA e : e.id # id)]
    /\ calls' = calls \cup {Call("delete", clicks + 1, id, FALSE)}
    /\ cards' = [k \in DOMAIN cards \ {id} |-> cards[k]]
    /\ clicks' = clicks + 1
    /\ UNCHANGED <<nonUiVars, store, removed, now, loads>>

\* toggleEntryCompletionAction(id, isCompleted) on the server: updateEntry
\* resolves when the store takes the update of an existing document, and
\* rejects otherwise; the action then returns or throws.
ToggleEntryCompletionAction(c, accepted) ==
    /\ c \in calls
    /\ c.kind = "toggle"
    /\ c.state = "sent"
    /\ IF accepted /\ c.id \in DOMAIN store /\ c.id \notin removed
         THEN /\ store' = [store EXCEPT ![c.id] = updateDoc(@, c.isCompleted, now)]
              /\ calls' = (calls \ {c}) \cup {[c EXCEPT !.state = "ok"]}
         ELSE /\ calls' = (calls \ {c}) \cup {[c EXCEPT !.state = "failed"]}
              /\ UNCHANGED store
    /\ UNCHANGED <<nonUiVars, removed, now, home, cards, loads, clicks>>

\* deleteEntryAction(id) on the server
DeleteEntryAction(c, accepted) ==
    /\ c \in calls
    /\ c.kind = "delete"
    /\ c.state = "sent"
    /\ IF accepted
         THEN /\ removed' = removed \cup {c.id}
              /\ calls' = (calls \ {c}) \cup {[c EXCEPT !.state = "ok"]}
         ELSE /\ calls' = (calls \ {c}) \cup {[c EXCEPT !.state = "failed"]}
              /\ UNCHANGED removed
    /\ UNCHANGED <<nonUiVars, store, now, home, cards, loads, clicks>>

\* The server action returned to the card's transition.
ActionReturns(c) ==
    /\ c \in calls
    /\ c.state = "ok"
    /\ calls' = calls \ {c}
    /\ UNCHANGED <<nonUiVars, store, removed, now, home, cards, loads, clicks>>

\* The server action threw: the catch block of the transition reverts a
\* toggle and calls onRefresh, which is loadEntries.
ActionFails(c) ==
    /\ c \in calls
    /\ c.state = "failed"
    /\ calls' = calls \ {c}
    /\ LET reverted == IF c.kind = "toggle"
                         THEN [home EXCEPT !.entries = withCompletion(@, c.id, ~c.isCompleted)]
                         ELSE home
       IN home' = startLoad(reverted)
    /\ cards' = Mounted(home')
    /\ loads' = loads \cup {Load([c EXCEPT !.state = "handled"])}
    /\ UNCHANGED <<nonUiVars, store, removed, now, clicks>>

\* getEntries: the query is answered from the collection as it is now.
LoadReads(l) ==
    /\ l \in loads
    /\ l.snapshot = undefined
    /\ loads' = (loads \ {l}) \cup {[l EXCEPT !.snapshot = Some(getEntries(store, removed))]}
    /\ UNCHANGED <<nonUiVars, store, removed, now, home, cards, calls, clicks>>

\* loadEntries: getEntries resolved; setEntries(fetchedEntries), and the
\* finally block clears isLoading.
LoadResolves(l) ==
    /\ l \in loads
    /\ l.snapshot # undefined
    /\ loads' = loads \ {l}
    /\ home' = [home EXCEPT !.entries = l.snapshot[1], !.isLoading = FALSE]
    /\ cards' = [k \in ShownIds(home') |-> IF k \in DOMAIN cards THEN cards[k] ELSE FALSE]
    /\ UNCHANGED <<nonUiVars, store, removed, now, calls, clicks>>

\* loadEntries: getEntries rejected; setError(...), and the finally block
\* clears isLoading.
LoadRejects(l) ==
    /\ l \in loads
    /\ loads' = loads \ {l}
    /\ home' = [home EXCEPT !.error = Some("Failed to load entries. Please refresh the page."),
                            !.isLoading = FALSE]
    /\ cards' = Mounted(home')
    /\ UNCHANGED <<nonUiVars, store, removed, now, calls, clicks>>

UiNext ==
    \/ Tick
    \/ \E id \in DOMAIN cards : ClickToggle(id)
    \/ \E id \in DOMAIN cards : ClickDelete(id)
    \/ \E c \in calls, accepted \in BOOLEAN : ToggleEntryCompletionAction(c, accepted)
    \/ \E c \in calls, accepted \in BOOLEAN : DeleteEntryAction(c, accepted)
    \/ \E c \in calls : ActionReturns(c)
    \/ \E c \in calls : ActionFails(c)
    \/ \E l \in loads : LoadReads(l)
    \/ \E l \in loads : LoadResolves(l)
    \/ \E l \in loads : LoadRejects(l)

UiSpec == UiInit /\ [][UiNext]_vars

-----------------------------------------------------------------------------
(* smartSearch: the query expander, the relevance scorer and the orchestrator *)

minQueryLength == 3

\* Points of one keyword against one entry
keywordPoints(entry, keyword) ==
    LET k == toLowerCase(keyword)
    IN (IF includes(toLowerCase(entry.content), k) THEN 10 ELSE 0)
        + (IF includes(toLowerCase(orEmpty(entry.translatedContent)), k) /\ entry.translatedContent # undefined
             THEN 8 ELSE 0)
        + (IF \E t \in DOMAIN entry.tags : includes(toLowerCase(entry.tags[t]), k) THEN 6 ELSE 0)
        + (IF includes(toLowerCase(entry.category), k) THEN 4 ELSE 0)

\* A mutation of recencyBonus: the tiers add up.
recencyBonusCumulative(ageDays) ==
    (IF ageDays < 1 THEN 3 ELSE 0) + (IF ageDays < 7 THEN 2 ELSE 0) + (IF ageDays < 30 THEN 1 ELSE 0)

\* The recency tier of an entry of the given age
recencyBonus(ageDays) ==
    IF ageDays < 1 THEN 3 ELSE IF ageDays < 7 THEN 2 ELSE IF ageDays < 30 THEN 1 ELSE 0

RECURSIVE sumKeywordPoints(_, _)
sumKeywordPoints(entry, keywords) ==
    IF keywords = <<>> THEN 0
    ELSE keywordPoints(entry, Head(keywords)) + sumKeywordPoints(entry, Tail(keywords))

\* The relevance score of an entry for an expansion
score(entry, keywords, categories) ==
    sumKeywordPoints(entry, keywords)
        + (IF entry.category \in categories THEN 5 ELSE 0)
        + recencyBonus(entry.ageDays)

\* A mutation of literalMatch: the category name is searched as well.
literalMatchWithCategory(entry, q) ==
    \/ includes(toLowerCase(entry.content), toLowerCase(q))
    \/ includes(toLowerCase(orEmpty(entry.translatedContent)), toLowerCase(q))
    \/ \E t \in DOMAIN entry.tags : includes(toLowerCase(entry.tags[t]), toLowerCase(q))
    \/ includes(toLowerCase(replaceUnderscores(entry.category)), toLowerCase(q))

\* The match of a short query: content, translated content, tags
literalMatch(entry, q) ==
    \/ includes(toLowerCase(entry.content), toLowerCase(q))
    \/ includes(toLowerCase(orEmpty(entry.translatedContent)), toLowerCase(q))
    \/ \E t \in DOMAIN entry.tags : includes(toLowerCase(entry.tags[t]), toLowerCase(q))

\* A mutation of fallbackMatch: the category name is searched as it is stored.
fallbackMatchRawCategory(entry, q) ==
    \/ literalMatch(entry, q)
    \/ includes(toLowerCase(entry.category), toLowerCase(q))

\* The match when there is no expansion: also the category name, its
\* underscores replaced by spaces
fallbackMatch(entry, q) ==
    \/ literalMatch(entry, q)
    \/ includes(toLowerCase(replaceUnderscores(entry.category)), toLowerCase(q))

\* A mutation of rankByScore: among equal scores the later entry comes first.
RECURSIVE rankByScoreUnstable(_, _)
rankByScoreUnstable(scores, indices) ==
    IF indices = {} THEN <<>>
    ELSE LET best == CHOOSE i \in indices : \A j \in indices :
                        scores[i] > scores[j] \/ (scores[i] = scores[j] /\ i >= j)
         IN <<best>> \o rankByScoreUnstable(scores, indices \ {best})

\* The indices sorted by score, descending, with a stable sort
RECURSIVE rankByScore(_, _)
rankByScore(scores, indices) ==
    IF indices = {} THEN <<>>
    ELSE LET best == CHOOSE i \in indices : \A j \in indices :
                        scores[i] > scores[j] \/ (scores[i] = scores[j] /\ i <= j)
         IN <<best>> \o rankByScore(scores, indices \ {best})

RankEntry(id, content, translated, category, tags, ageDays) ==
    [id |-> id, content |-> content, translatedContent |-> translated,
     category |-> category, tags |-> tags, reasoning |-> undefined, ageDays |-> ageDays]

RankEntries ==
    {RankEntry("a", "learning React hooks today", undefined, "learning_note", <<"react">>, 0),
     RankEntry("b", "fix bug in payment", undefined, "bug_fix", <<>>, 10),
     RankEntry("c", "unrelated", undefined, "general", <<>>, 40),
     RankEntry("d", "Buy milk", Some("doodh lana"), "task", <<"bug", "hooks">>, 3)}

RankLists == UNION {[1..n -> RankEntries] : n \in 0..MaxEntries}

Expansion(keywords, categories) ==
    [expandedQuery |-> "restated", keywords |-> keywords, categories |-> categories,
     intent |-> "find"]

Expansions ==
    {Expansion(<<"react", "hooks", "useState">>, {"learning_note"}),
     Expansion(<<"BUG">>, {}),
     Expansion(<<>>, {"task", "general"})}

SmartQueries == {"", " ", "a", "Bu", "sk", "react hooks", "bug fix", "doodh"}

SmartInit ==
    /\ flow = "none"
    /\ pc = "idle"
    /\ input = ""
    /\ attempt = 0
    /\ outcomes = <<>>
    /\ sleeps = <<>>
    /\ output = undefined
    /\ result = Pending
    /\ apc = "none"
    /\ store = <<>>
    /\ addResult = Pending
    /\ createCalls = 0
    /\ bpc = "none"
    /\ creates = <<>>
    /\ bulkResult = Pending
    /\ query \in SmartQueries
    /\ entries \in RankLists
    /\ searchResult = <<>>
    /\ now = 0
    /\ removed = {}
    /\ home = [entries |-> <<>>, isLoading |-> TRUE, error |-> undefined]
    /\ cards = <<>>
    /\ calls = {}
    /\ loads = {}
    /\ clicks = 0

smartVars == <<flow, input, attempt, sleeps, addVars, bulkVars, query, entries, uiVars>>

\* smartSearch(query, entries): a blank query returns the entries, a short
\* one the literal matches; any other query goes to the expander.
InvokeSmartSearch ==
    /\ pc = "idle"
    /\ IF trim(query) = ""
         THEN /\ searchResult' = entries
              /\ pc' = "done"
         ELSE IF Len(query) < minQueryLength
           THEN /\ searchResult' = SelectSeq(entries, LAMBDA e : literalMatch(e, query))
                /\ pc' = "done"
           ELSE /\ pc' = "expand"
                /\ UNCHANGED searchResult
    /\ UNCHANGED <<outcomes, output, result, smartVars>>

\* The expander's oracle call returned an expansion: every entry is scored,
\* those of score 0 are dropped and the rest ranked.
ExpanderReturns(expansion) ==
    /\ pc = "expand"
    /\ outcomes' = Append(outcomes, [kind |-> "output", error |-> NoError])
    /\ output' = Some(expansion)
    /\ LET scores == [i \in DOMAIN entries |->
                        score(entries[i], expansion.keywords, expansion.categories)]
           order == rankByScore(scores, {i \in DOMAIN entries : scores[i] > 0})
       IN /\ result' = [kind |-> "ranked", scores |-> scores, order |-> order]
          /\ searchResult' = [p \in DOMAIN order |-> entries[order[p]]]
    /\ pc' = "done"
    /\ UNCHANGED smartVars

\* The expander's oracle call failed: the expander returns nothing, and the
\* orchestrator matches the query itself.
ExpanderFails(error) ==
    /\ pc = "expand"
    /\ outcomes' = Append(outcomes, [kind |-> "error", error |-> error])
    /\ output' = undefined
    /\ result' = [kind |-> "unranked"]
    /\ searchResult' = SelectSeq(entries, LAMBDA e : fallbackMatch(e, query))
    /\ pc' = "done"
    /\ UNCHANGED smartVars

SmartNext ==
    \/ InvokeSmartSearch
    \/ \E expansion \in Expansions : ExpanderReturns(expansion)
    \/ \E error \in IngestErrors : ExpanderFails(error)

SmartSpec == SmartInit /\ [][SmartNext]_vars

-----------------------------------------------------------------------------
(* Properties of bulkAddEntries (IngestSpec) *)

\* The lines of the raw content that are not blank
NonBlankLines(raw) ==
    {i \in 1..Len(splitLines(raw)) : ~IsBlank(splitLines(raw)[i])}

\* The documents of the collection whose content is the given text
DocsWith(content) == {k \in DOMAIN store : store[k].content = content}

FallbackDoc(doc) ==
    /\ doc.category = "general"
    /\ doc.detectedLanguage = "en"
    /\ doc.translatedContent = doc.content
    /\ doc.tags = <<"bulk-import-failed">>
    /\ doc.confidence = Some(0)
    /\ doc.isCompleted = FALSE

\* The collection holds exactly one fallback document per non-blank line of
\* the raw content, its content the trimmed line.
OneFallbackDocPerLine ==
    LET lines == splitLines(input)
        kept == NonBlankLines(input)
    IN /\ Len(store) = Cardinality(kept)
       /\ \A k \in DOMAIN store :
            /\ FallbackDoc(store[k])
            /\ \E i \in kept : store[k].content = trim(lines[i])
       /\ \A i \in kept :
            Cardinality(DocsWith(trim(lines[i])))
                = Cardinality({j \in kept : trim(lines[j]) = trim(lines[i])})

\* C11: when the bulk oracle call has failed (after its retries) and the store
\* accepted every create, bulkAddEntries has persisted exactly one entry per
\* line of the raw input that is non-empty after trimming -- content the
\* trimmed line, category general, language en, translatedContent the line,
\* the single sentinel tag, confidence 0, not completed -- and returns the
\* number of those lines.
C11_FallbackOnePerLine ==
    (bpc = "returned" /\ pc = "threw")
        => /\ OneFallbackDocPerLine
           /\ bulkResult = Count(Cardinality(NonBlankLines(input)))

C11_Witness ==
    /\ bpc = "returned"
    /\ pc = "threw"
    /\ Len(outcomes) = maxRetries
    /\ Len(splitLines(input)) = 3
    /\ Len(store) = 2
    /\ bulkResult = Count(2)

\* How many elements of the sequence equal x
CountIn(seq, x) == Cardinality({k \in DOMAIN seq : seq[k] = x})

\* The documents of the oracle's items, one per item
OracleDocs == [i \in 1..Len(result.value) |-> entryToDoc(bulkEntryData(result.value[i]))]

\* The collection holds exactly the documents of the oracle's items.
OracleDocsPersisted ==
    /\ Len(store) = Len(OracleDocs)
    /\ \A i \in DOMAIN OracleDocs : CountIn(store, OracleDocs[i]) = CountIn(OracleDocs, OracleDocs[i])

\* The oracle answered with one item for a raw content of more than 200 characters.
SingleForLarge == Len(result.value) = 1 /\ Len(input) > 200

BulkAnswered == flow = "bulk" /\ pc = "returned" /\ bpc \in {"returned", "threw"}

NoRejection == \A i \in DOMAIN creates : creates[i].state # "rejected"

\* C12: when the oracle returned exactly one result for a raw input of more
\* than 200 characters, the single result is never persisted and the line-split
\* fallback records are persisted instead; when the input has 200 characters
\* or fewer, or the oracle returned two or more results, the oracle's results
\* are persisted and the fallback is not run.
C12_PlausibilityCheck ==
    BulkAnswered
        => IF SingleForLarge
             THEN CallsOf("oracle") = {} /\ OneFallbackDocPerLine
             ELSE CallsOf("fallback") = {} /\ OracleDocsPersisted

\* The same while the store rejects no create
PlausibilityCheckWhileStoreAccepts ==
    (BulkAnswered /\ NoRejection)
        => IF SingleForLarge
             THEN CallsOf("oracle") = {} /\ OneFallbackDocPerLine
             ELSE CallsOf("fallback") = {} /\ OracleDocsPersisted

InFlight == {i \in DOMAIN creates : creates[i].state = "pending"}

\* C13: whenever bulkAddEntries returns a count, the count equals the number
\* of entries this invocation actually created in the store, for every
\* combination of per-record store successes and failures.
C13_CountIsEntriesCreated ==
    (bpc = "returned" /\ InFlight = {}) => bulkResult.value = Len(store)

\* C14: once the oracle path has failed, bulkAddEntries always completes by
\* returning a count and never raises to its caller, whatever the store does.
C14_FallbackNeverRaises ==
    flow = "bulk" => bpc # "threw"

\* C15: at the moment bulkAddEntries returns its count, raises, or starts the
\* fallback fan-out, no store create started by the earlier fan-out is still
\* in flight.
C15_FanOutJoined ==
    /\ bpc \in {"returned", "threw"} => InFlight = {}
    /\ bpc = "fallback" => InFlight \cap CallsOf("oracle") = {}

-----------------------------------------------------------------------------
(* Properties of addEntry (Spec) *)

DatabaseError ==
    /\ apc = "threw"
    /\ addResult = [kind |-> "throw",
                    message |-> "Database error: Failed to create entry in Firestore"]

\* C16: when the classifier returned and the store create fails, addEntry
\* raises, persists no entry, and has called the store create exactly once.
C16_StoreFailureRaises ==
    /\ (flow = "single" /\ pc = "returned" /\ createCalls >= 1 /\ store = <<>>)
            => DatabaseError
    /\ DatabaseError => (pc = "returned" /\ store = <<>> /\ createCalls = 1)

C16_Witness ==
    /\ DatabaseError
    /\ result.kind = "record"
    /\ outcomes[Len(outcomes)].kind = "output"

\* C17: addEntry with a blank input fails at once with a validation error:
\* no oracle call, no store call, no change of state.
C17_BlankRefused ==
    (apc # "none" /\ IsBlank(input))
        => /\ apc = "threw"
           /\ addResult = [kind |-> "throw", message |-> "Content cannot be empty."]
           /\ outcomes = <<>>
           /\ createCalls = 0
           /\ store = <<>>
           /\ flow = "none" /\ pc = "idle" /\ result = Pending

C17_Witness ==
    /\ apc = "threw"
    /\ input = " "
    /\ addResult.message = "Content cannot be empty."
    /\ outcomes = <<>>

-----------------------------------------------------------------------------
(* Properties of the entries collection (IngestSpec) *)

\* C18: every entry created by addEntry or bulkAddEntries has a confidence
\* between 0 and 1, whatever the oracle returned.
C18_StoredConfidenceInRange ==
    \A k \in DOMAIN store :
        /\ store[k].confidence # undefined
        /\ store[k].confidence[1] >= 0
        /\ store[k].confidence[1] <= 100

\* C19: every entry created by addEntry or bulkAddEntries has a non-empty
\* content, and its translatedContent, when present, is non-empty -- also when
\* the bulk oracle returns an item whose translatedContent is "".
C19_StoredTextNonEmpty ==
    \A k \in DOMAIN store :
        /\ store[k].content # ""
        /\ store[k].translatedContent # ""

\* Both hold of the entries addEntry creates.
AddEntryStoresValidEntries ==
    apc # "none" => (C18_StoredConfidenceInRange /\ C19_StoredTextNonEmpty)

-----------------------------------------------------------------------------
(* Properties of localSearch (SearchSpec) *)

\* The query terms that survive: the maximal runs of non-whitespace characters
\* of the lower-cased query that are longer than one character
SurvivingTerms(q) ==
    LET lq == toLowerCase(q)
        Solid(i, j) == \A k \in i..j : CharAt(lq, k) \notin WhiteSpace
    IN {SubSeq(lq, i, j) : <<i, j>> \in
            {p \in (1..Len(lq)) \X (1..Len(lq)) :
                /\ p[1] < p[2]
                /\ Solid(p[1], p[2])
                /\ (p[1] = 1 \/ CharAt(lq, p[1] - 1) \in WhiteSpace)
                /\ (p[2] = Len(lq) \/ CharAt(lq, p[2] + 1) \in WhiteSpace)}}

\* The term occurs in the lower-cased text of one of the searched fields.  (A
\* term holds no whitespace, so it occurs in the fields joined by spaces
\* exactly when it occurs in one of them.)
FoundIn(entry, term) ==
    \/ includes(toLowerCase(entry.content), term)
    \/ entry.translatedContent # undefined
            /\ includes(toLowerCase(entry.translatedContent[1]), term)
    \/ includes(toLowerCase(replaceUnderscores(entry.category)), term)
    \/ \E k \in DOMAIN entry.tags : includes(toLowerCase(entry.tags[k]), term)
    \/ entry.reasoning # undefined /\ includes(toLowerCase(entry.reasoning[1]), term)

\* C20: for a non-blank query, localSearch returns exactly the entries for
\* which every surviving query term (whitespace-split, lower-cased, longer
\* than one character) is a substring of the lower-cased searchable text made
\* of content, translatedContent, category with underscores replaced by
\* spaces, all tags and reasoning; they come in input order, and all entries
\* come back when no term survives.
C20_LocalSearchMatchesAllTerms ==
    (pc = "searched" /\ ~IsBlank(query))
        => /\ searchResult = SelectSeq(entries, LAMBDA entry :
                                \A term \in SurvivingTerms(query) : FoundIn(entry, term))
           /\ SurvivingTerms(query) = {} => searchResult = entries

C20_Witness ==
    /\ pc = "searched"
    /\ query = "BUG fix"
    /\ Len(entries) = 2
    /\ entries[1] # entries[2]
    /\ Len(searchResult) = 1
    /\ searchResult[1].id = "e1"

-----------------------------------------------------------------------------
(* Properties of the server actions and the page (UiSpec) *)

\* The step is the server's run of the toggle call c
ToggleRuns(c) ==
    /\ c \in calls
    /\ c.kind = "toggle"
    /\ c.state = "sent"
    /\ c \notin calls'

\* C22: toggleEntryCompletionAction(id, v) changes only the completion flag
\* (and the last-update time) of the entry with that id: every other field of
\* that entry and every other entry in the store is unchanged, and the update
\* time of the entry never decreases.
C22_ToggleChangesOnlyCompletion ==
    [][/\ store' # store => \E c \in calls : ToggleRuns(c)
       /\ \A c \in calls : ToggleRuns(c) =>
            /\ removed' = removed
            /\ DOMAIN store' = DOMAIN store
            /\ \A k \in DOMAIN store :
                 IF k = c.id
                   THEN /\ [store'[k] EXCEPT !.isCompleted = store[k].isCompleted,
                                             !.updatedAt = store[k].updatedAt] = store[k]
                        /\ store'[k].updatedAt >= store[k].updatedAt
                        /\ [c EXCEPT !.state = "ok"] \in calls'
                                => store'[k].isCompleted = c.isCompleted
                   ELSE store'[k] = store[k]]_vars

C22_Witness ==
    /\ store[1].isCompleted
    /\ store[1].updatedAt > store[1].createdAt
    /\ store[1].content = "buy milk"
    /\ store[2].updatedAt = store[2].createdAt
    /\ \E c \in calls : c.kind = "toggle" /\ c.id = 1 /\ c.state = "ok"

-----------------------------------------------------------------------------
(* Properties of smartSearch (SmartSpec) *)

Ranked == pc = "done" /\ result.kind = "ranked"

\* The keywords (by position) found in the text, whatever the case
FoundKeywords(keywords, text) ==
    {k \in DOMAIN keywords : includes(toLowerCase(text), toLowerCase(keywords[k]))}

C25_RankedByScore ==
    Ranked =>
        /\ {result.order[p] : p \in DOMAIN result.order}
                = {i \in DOMAIN entries : result.scores[i] > 0}
        /\ Len(searchResult) = Len(result.order)
        /\ \A p \in DOMAIN result.order : searchResult[p] = entries[result.order[p]]
        /\ \A p, q \in DOMAIN result.order :
             p < q => \/ result.scores[result.order[p]] > result.scores[result.order[q]]
                      \/ /\ result.scores[result.order[p]] = result.scores[result.order[q]]
                         /\ result.order[p] < result.order[q]

C25_Witness ==
    /\ Ranked
    /\ Len(entries) = 2
    /\ entries[1].id = "b"
    /\ entries[2].id = "d"
    /\ result.scores[1] = 15
    /\ result.scores[2] = 8
    /\ result.order = <<1, 2>>

\* C26: when the oracle fails during query expansion, the expander yields no
\* expansion instead of an error, and smartSearch still completes: after
\* exactly one expansion attempt it returns, in input order and without
\* scoring, the entries that match the query as a case-insensitive substring
\* of content, translated content, tags or the category name with underscores
\* replaced by spaces.
C26_ExpansionFailureFallsBack ==
    (pc = "done" /\ outcomes # <<>> /\ outcomes[Len(outcomes)].kind = "error")
        => /\ output = undefined
           /\ Len(outcomes) = 1
           /\ result.kind = "unranked"
           /\ searchResult = SelectSeq(entries, LAMBDA e :
                \/ includes(toLowerCase(e.content), toLowerCase(query))
                \/ e.translatedContent # undefined
                        /\ includes(toLowerCase(e.translatedContent[1]), toLowerCase(query))
                \/ \E t \in DOMAIN e.tags : includes(toLowerCase(e.tags[t]), toLowerCase(query))
                \/ includes(toLowerCase(replaceUnderscores(e.category)), toLowerCase(query)))

C26_Witness ==
    /\ pc = "done"
    /\ query = "bug fix"
    /\ outcomes # <<>>
    /\ outcomes[1].kind = "error"
    /\ Len(entries) = 2
    /\ entries[1].id = "a"
    /\ entries[2].id = "b"
    /\ searchResult = <<entries[2]>>

-----------------------------------------------------------------------------
(* Further properties of the store, of bulkAddEntries and of addEntry *)

\* C27: the confidence of an entry survives the store round trip: every entry
\* read back through getEntries (docToEntry) has the confidence it was written
\* with through createEntry (entryToDoc), in particular the bulk-fallback
\* records written with confidence 0.
C27_ConfidenceRoundTrip ==
    \A i \in DOMAIN home.entries :
        home.entries[i].confidence = store[home.entries[i].id].confidence

C29_AtMostOneEntry ==
    apc # "none"
        => /\ Len(store) <= 1
           /\ apc = "returned"
                => /\ addResult.value.id = Len(store)
                   /\ store[Len(store)] = entryToDoc(addResult.value.entry)
                   /\ addResult.value.entry.content = input
                   /\ addResult.value.entry.isCompleted = FALSE

-----------------------------------------------------------------------------
(* A further property of the Home page *)

\* The refresh l, started by the failure handler of a toggle, delivers its
\* entries in this step
RefreshAfterFailedToggle(l) ==
    /\ l \in loads
    /\ l \notin loads'
    /\ l.cause.kind = "toggle"
    /\ Visible(home')

\* At most one server action of the card of each entry is under way
OneActionPerCard == \A c1, c2 \in calls : c1.id = c2.id => c1 = c2

\* C30: the optimistic completion toggle is reverted on failure: when the
\* server action of a toggle fails, then after the failure handler and the
\* refresh it triggers have run, the completion flag shown for that entry
\* equals the value held in the store; and while a toggle or delete on a card
\* is pending, no second action on that card is started.
C30_ToggleRevertedOnFailure ==
    [][/\ \A l \in loads :
            RefreshAfterFailedToggle(l)
                => \A i \in DOMAIN home'.entries :
                       home'.entries[i].id = l.cause.id
                           => home'.entries[i].isCompleted = store'[l.cause.id].isCompleted
       /\ OneActionPerCard']_vars

====
